---- MODULE Spec2Model ----
(***************************************************************************)
(* AutoTranscribe: the watcher threads (watcher.py), the confirmation      *)
(* callback and the single-worker task queue (main.py), the durable        *)
(* processed-file record (file_manager.py) and the progress state machine  *)
(* (progress.py), as one state machine.                                    *)
(*                                                                         *)
(* Threads: the observer thread (FsEvent = VideoHandler._handle_file), one *)
(* short-lived watcher thread per in-flight path (_wait_and_process, then  *)
(* on_new_video), and the queue worker (TaskQueue._worker running          *)
(* process_video).  Every access to processed.json is a step of its own:   *)
(* file_manager.py takes no lock, and Path.write_text truncates the file   *)
(* when it opens it and writes the data afterwards.                        *)
(***************************************************************************)
EXTENDS Integers, Sequences, FiniteSets

\* Filesystem events the environment delivers in one run.
MaxEvents == 3

\* config.py
FILE_STABLE_CHECK_INTERVAL == 2
FILE_STABLE_MAX_WAIT == 300

\* config.py: MEDIA_EXTENSIONS = VIDEO_EXTENSIONS | AUDIO_EXTENSIONS
MEDIA_EXTENSIONS ==
    {".mp4", ".mkv", ".avi", ".mov", ".webm", ".flv", ".m4v", ".wmv", ".ts",
     ".mpg", ".mpeg"}
    \cup {".mp3", ".wav", ".m4a", ".flac", ".aac", ".ogg", ".opus", ".wma",
          ".aiff", ".aif"}

\* Two media files in a watched directory (absolute paths).
Paths == {"/Desktop/a.mp4", "/Desktop/b.mp4"}

\* Paths that also raise events: a text file, a hidden file and an editor's
\* temporary file in a watched directory, and a video the application has
\* filed under its own BASE_DIR.
OtherPaths == {"/Desktop/notes.txt", "/Desktop/.a.mp4", "/Desktop/~a.mp4",
               "/AutoTranscribe/video/a.mp4"}

EventPaths == Paths \cup OtherPaths

NoPath == "-"

\* str(Path(filepath)): pathlib drops doubled slashes, "." components and a
\* trailing slash.  The event paths are a watched directory (a Path of
\* config.WATCH_DIRS) joined with a file name, so each is already in that
\* form and comes back as it went in.
StrPath_NameOnly(p) ==
    CASE p = "/Desktop/a.mp4" -> "a.mp4"
      [] p = "/Desktop/b.mp4" -> "b.mp4"
      [] OTHER -> p

StrPath(p) ==
    CASE p = "/Desktop/a.mp4" -> "/Desktop/a.mp4"
      [] p = "/Desktop/b.mp4" -> "/Desktop/b.mp4"
      [] OTHER -> p

\* video_path.name
Name(p) ==
    CASE p = "/Desktop/a.mp4" -> "a.mp4"
      [] p = "/Desktop/b.mp4" -> "b.mp4"
      [] p = "/Desktop/notes.txt" -> "notes.txt"
      [] p = "/Desktop/.a.mp4" -> ".a.mp4"
      [] p = "/Desktop/~a.mp4" -> "~a.mp4"
      [] OTHER -> "a.mp4"

\* Path(path).suffix.lower()
Suffix(p) == IF p = "/Desktop/notes.txt" THEN ".txt" ELSE ".mp4"

\* path.name.startswith(".") or path.name.startswith("~")
NameStartsWithDotOrTilde(p) == p \in {"/Desktop/.a.mp4", "/Desktop/~a.mp4"}

\* path.resolve().relative_to(BASE_DIR.resolve()) does not raise
InsideBaseDir(p) == p = "/AutoTranscribe/video/a.mp4"

\* video_path.stat().st_size / 1024 / 1024, in tenths of a megabyte
FilesizeMb(p) == IF p = "/Desktop/a.mp4" THEN 125 ELSE 48

\* _get_audio_duration: the media lengths (seconds) ffprobe reports.
Durations == {3600}

\* Elapsed seconds since progress._start_time at which the wait loop of
\* _run_transcribe_with_progress may wake up while the ASR call is running.
ElapsedSamples == {2, 1800}

\* Sizes (bytes) a stat of the watched file may report.
SizeSamples == {0, 1, 2}

Min(a, b) == IF a <= b THEN a ELSE b
Max(a, b) == IF a >= b THEN a ELSE b

VARIABLES
    files,          \* source files present at their watched path
    eventsLeft,     \* filesystem events still to come
    processedFile,  \* content of logs/processed.json (a set of paths)
    processedTorn,  \* processed.json is open for writing: truncated, data not yet written
    inflight,       \* VideoHandler._currently_processing
    wpc,            \* position of the watcher thread of each path
    wloaded,        \* mark_processed's local set `processed` in each watcher thread
    queue,          \* TaskQueue.q: sequence of [path, ticket]
    wk,             \* position of the worker thread
    cur,            \* the worker's video_path
    kloaded,        \* mark_processed's local set `processed` in the worker
    stage,          \* progress._current_stage
    error,          \* progress._error is non-empty
    pm,             \* progress: _filename, _filesize_mb, _duration_sec, _detail,
                    \* _transcribe_percent, and whether _start_time is set
    elapsed,        \* time.time() - progress._start_time at the latest wake-up of the ASR wait loop
    pqueue,         \* progress._queue (filenames)
    completed,      \* progress._total_completed
    failed,         \* progress._total_failed
    history,        \* progress._history: sequence of [file, result]
    nextTicket,     \* number of q.put calls so far (put order)
    lastTicket,     \* ticket of the task the worker dequeued last
    starts,         \* per path: how often progress.start ran for it
    everMarked,     \* paths for which a mark_processed call has completed
    escaped,        \* some process_video call raised into the worker loop
    dupSkipped,     \* some event was dropped because its path was in flight
    lidRaised,      \* detect_language caught an exception in the task being shown
    notified,       \* a notification or dialog was shown for the current task
    written,        \* save_transcript_md wrote a transcript for the current task
    sd,             \* one _wait_for_stable call: its locals and what it has read
    pc,             \* one evaluation of the percent formulas: inputs and results
    sf,             \* status.json: content, writes in progress, last endpoint read
    nm              \* one run of the name generator: directory, arguments, result

vars == <<files, eventsLeft, processedFile, processedTorn, inflight, wpc, wloaded,
          queue, wk, cur, kloaded, stage, error, pm, elapsed, pqueue, completed,
          failed, history, nextTicket, lastTicket, starts, everMarked, escaped,
          dupSkipped, lidRaised, notified, written, sd, pc, sf, nm>>

fsVars     == <<files>>
recVars    == <<processedFile, processedTorn, everMarked>>
watchVars  == <<inflight, wpc, wloaded>>
workVars   == <<wk, cur, kloaded>>
progVars   == <<stage, error, completed, failed, history, starts>>
ticketVars == <<nextTicket, lastTicket>>

\* Everything except the locals of the _wait_for_stable call (sd) and of the
\* percent evaluation (pc).
sysVars == <<files, eventsLeft, processedFile, processedTorn, inflight, wpc, wloaded,
             queue, wk, cur, kloaded, stage, error, pm, elapsed, pqueue, completed,
             failed, history, nextTicket, lastTicket, starts, everMarked, escaped,
             dupSkipped, lidRaised, notified, written>>

\* The variables of the watcher, the record, the work queue and the worker
\* that no ProgressManager method touches.
nonProgVars == <<files, eventsLeft, processedFile, processedTorn, inflight, wpc,
                 wloaded, queue, wk, cur, kloaded, elapsed, nextTicket, lastTicket,
                 starts, everMarked, escaped, dupSkipped, lidRaised, notified,
                 written>>

Stages == {"idle", "waiting", "extract", "detect", "transcribe", "save", "done", "failed"}

----------------------------------------------------------------------------
\* file_manager.py

\* load_processed: a missing file, or one that does not parse (read while a
\* writer has truncated it), gives the empty set.
LoadProcessed == IF processedTorn THEN {} ELSE processedFile

\* is_processed
IsProcessed(p) == p \in LoadProcessed

----------------------------------------------------------------------------
\* progress.py

\* STAGES[stage]["progress"]
StageBase(st) ==
    CASE st = "idle" -> 0
      [] st = "waiting" -> 5
      [] st = "extract" -> 15
      [] st = "detect" -> 25
      [] st = "transcribe" -> 40
      [] st = "save" -> 90
      [] st = "done" -> 100
      [] st = "failed" -> 100

\* _compute_progress; int(tp * 0.5) of a positive tp is tp \div 2.
ComputeProgress_NoBlend(st, tp) ==
    IF st = "transcribe" /\ tp > 0 THEN StageBase(st) + tp ELSE StageBase(st)
ComputeProgress(st, tp) ==
    IF st = "transcribe" /\ tp > 0
       THEN Min(StageBase(st) + tp \div 2, 90)
       ELSE StageBase(st)

\* _write_status: self._history[-5:]
HistoryTail_Head(h) == SubSeq(h, 1, Min(5, Len(h)))
HistoryTail(h) == SubSeq(h, Max(1, Len(h) - 4), Len(h))

\* _write_status: the status dict that is serialized to status.json.
Status ==
    [state |-> stage,
     progress |-> ComputeProgress(stage, pm.tpct),
     filename |-> pm.filename,
     filesize_mb |-> pm.filesize,
     duration_sec |-> pm.duration,
     detail |-> pm.detail,
     transcribe_percent |-> pm.tpct,
     error |-> error,
     total_completed |-> completed,
     total_failed |-> failed,
     queue |-> pqueue,
     history |-> HistoryTail(history)]

\* ProgressManager.__init__: the per-task fields before any task.
NoTask ==
    [filename |-> "", filesize |-> 0, duration |-> 0, detail |-> "", tpct |-> 0,
     started |-> FALSE]

\* start(filename, filesize_mb)
ProgStart(name, size) ==
    /\ pm' = [filename |-> name, filesize |-> size, duration |-> 0, detail |-> "",
              tpct |-> 0, started |-> TRUE]
    /\ stage' = "waiting"
    /\ error' = FALSE
    /\ UNCHANGED <<completed, failed, history, pqueue>>

\* update(stage, detail, transcribe_percent, duration_sec): the optional
\* arguments overwrite a field only when they are non-empty / positive.
ProgUpdate(st, detail, tp, dur) ==
    /\ stage' = st
    /\ pm' = [pm EXCEPT !.detail = IF detail # "" THEN detail ELSE @,
                        !.tpct = IF tp > 0 THEN tp ELSE @,
                        !.duration = IF dur > 0 THEN dur ELSE @]
    /\ UNCHANGED <<error, completed, failed, history, pqueue>>

\* update_transcribe_progress(percent, detail)
ProgUpdateTranscribe(percent, detail) ==
    /\ pm' = [pm EXCEPT !.tpct = Min(percent, 100),
                        !.detail = IF detail # "" THEN detail ELSE @]
    /\ UNCHANGED <<stage, error, completed, failed, history, pqueue>>

\* finish(success, ...)
ProgFinish(success) ==
    /\ IF success
          THEN /\ stage' = "done"
               /\ pm' = [pm EXCEPT !.tpct = 100, !.detail = "result"]
               /\ completed' = completed + 1
               /\ history' = Append(history, [file |-> pm.filename, result |-> "ok"])
               /\ UNCHANGED failed
          ELSE /\ stage' = "failed"
               /\ failed' = failed + 1
               /\ history' = Append(history, [file |-> pm.filename, result |-> "fail"])
               /\ UNCHANGED <<pm, completed>>
    /\ UNCHANGED <<error, pqueue>>

\* set_error(error)
ProgSetError ==
    /\ error' = TRUE
    /\ UNCHANGED <<stage, pm, completed, failed, history, pqueue>>

\* reset_to_idle
ProgResetToIdle_KeepsPercent ==
    /\ stage' = "idle"
    /\ pm' = [NoTask EXCEPT !.tpct = pm.tpct]
    /\ error' = FALSE
    /\ UNCHANGED <<completed, failed, history, pqueue>>
ProgResetToIdle ==
    /\ stage' = "idle"
    /\ pm' = [filename |-> "", filesize |-> 0, duration |-> 0, detail |-> "",
              tpct |-> 0, started |-> FALSE]
    /\ error' = FALSE
    /\ UNCHANGED <<completed, failed, history, pqueue>>

\* remove_from_queue: drops every entry with that filename.
RemoveFromQueue(q, name) == SelectSeq(q, LAMBDA item : item # name)

\* add_to_queue
AddToQueue(q, name) == Append(q, name)

\* The threads that call ProgressManager methods: the worker (process_video)
\* and a watcher task (add_task).
Writers == {"worker", "watcher"}

\* status.json and the _write_status calls in progress.  A document is the
\* serialised Status; <<>> is a file of zero bytes or "no call in progress".
\*   file   what the file holds
\*   pend   per thread: the document json.dumps produced, not yet written
\*   opened the threads whose write_text has opened (truncated) the file
\*   read   the body the status endpoint sent last
\* ProgressManager.__init__ ends with _write_status().
SfStart ==
    [file |-> <<Status>>, pend |-> [t \in Writers |-> <<>>], opened |-> {},
     read |-> <<Status>>]

----------------------------------------------------------------------------
\* main.py, _run_transcribe_with_progress: the progress estimate

\* estimated_seconds = max(duration * 0.5, 30), counted in half seconds.
EstimatedHalfSeconds(duration) == Max(duration, 60)

\* p/q <= r/s for p, r >= 0 and q, s > 0, by comparing the integer parts and
\* then the reciprocals of the fractional parts (no product leaves 32 bits).
RECURSIVE FracLeq(_, _, _, _)
FracLeq(p, q, r, s) ==
    IF p \div q # r \div s
       THEN p \div q < r \div s
       ELSE IF p % q = 0 THEN TRUE
            ELSE IF r % s = 0 THEN FALSE
            ELSE FracLeq(s, r % s, q, p % q)

\* d <= 95 * (1 - (1 - k/n) ** 1.5), that is
\* 95^2 * (n - k)^3 <= (95 - d)^2 * n^3, for 0 <= k <= n and 0 <= d <= 95.
CurveAtLeast(d, k, n) ==
    IF k = n THEN TRUE
    ELSE IF d = 95 THEN FALSE
    ELSE FracLeq(95 * (n - k), (95 - d) * n, (95 - d) * n * n, 95 * (n - k) * (n - k))

\* raw_pct = min(elapsed / estimated_seconds, 1.0)
\* display_pct = int(95 * (1 - (1 - raw_pct) ** 1.5))
DisplayPct(e, duration) ==
    LET n == EstimatedHalfSeconds(duration)
        k == Min(2 * e, n)
    IN  CHOOSE d \in 0..95 :
            CurveAtLeast(d, k, n) /\ (d = 95 \/ ~CurveAtLeast(d + 1, k, n))

\* display_pct = max(1, min(display_pct, 95))
ClampDisplay_NoFloor(d) == Min(d, 95)
ClampDisplay(d) == Max(1, Min(d, 95))

----------------------------------------------------------------------------
\* watcher.py: the tests of _handle_file and _wait_for_stable

\* _handle_file: not media, a hidden or temporary name, or inside BASE_DIR.
HandleFileIgnores_HiddenPass(p) ==
    \/ Suffix(p) \notin MEDIA_EXTENSIONS
    \/ InsideBaseDir(p)
HandleFileIgnores(p) ==
    \/ Suffix(p) \notin MEDIA_EXTENSIONS
    \/ NameStartsWithDotOrTilde(p)
    \/ InsideBaseDir(p)

\* with self._processing_lock: if filepath in self._currently_processing
AlreadyInFlight_Never(p) == FALSE
AlreadyInFlight(p) == p \in inflight

\* _wait_for_stable: while waited < FILE_STABLE_MAX_WAIT
LoopContinues_Forever(waited) == TRUE
LoopContinues(waited) == waited < FILE_STABLE_MAX_WAIT

\* _wait_for_stable: if curr_size > 0 and curr_size == prev_size
StableReading_AnySize(curr, prev) == curr = prev
StableReading(curr, prev) == curr > 0 /\ curr = prev

\* What one poll of _wait_for_stable finds: the path does not exist, stat
\* raises OSError, or stat reports a size.
NoObs == [kind |-> "none", size |-> 0]
Observations ==
    {[kind |-> "gone", size |-> 0], [kind |-> "staterr", size |-> 0]}
    \cup {[kind |-> "size", size |-> n] : n \in SizeSamples}

\* _wait_for_stable: waited = 0, prev_size = -1
SdStart ==
    [waited |-> 0, prev |-> -1, polls |-> 0, result |-> "running",
     obs |-> NoObs, before |-> NoObs]

----------------------------------------------------------------------------
\* Inputs of the percent formulas

SubPercents == 0..100
ElapsedInputs == {0, 2, 15, 30, 600, 1800}
DurationInputs == {0, 45, 61, 3600}

PcStart ==
    [stage |-> "idle", sub |-> 0, elapsed |-> 0, duration |-> 0, percent |-> 0,
     display |-> 0, computed |-> FALSE, estimated |-> FALSE]

PcInputs ==
    {[PcStart EXCEPT !.stage = st, !.sub = s, !.elapsed = e, !.duration = d] :
        st \in Stages, s \in SubPercents, e \in ElapsedInputs, d \in DurationInputs}

----------------------------------------------------------------------------
\* file_manager.py: the standard name.  Names are sequences of characters,
\* so that str.startswith, the slices and int() are computed as the code
\* computes them.

DigitChar(d) == <<"0", "1", "2", "3", "4", "5", "6", "7", "8", "9">>[d + 1]

DigitChars == {DigitChar(d) : d \in 0..9}

DigitVal(c) == CHOOSE d \in 0..9 : DigitChar(d) = c

\* str(n) inside the f-strings, n >= 0.
RECURSIVE Str(_)
Str(n) == IF n < 10 THEN <<DigitChar(n)>> ELSE Str(n \div 10) \o <<DigitChar(n % 10)>>

\* The value of a string of decimal digits.
RECURSIVE DecimalValue(_)
DecimalValue(cs) ==
    IF cs = <<>> THEN 0
    ELSE 10 * DecimalValue(SubSeq(cs, 1, Len(cs) - 1)) + DigitVal(cs[Len(cs)])

\* int(text): <<value>>, or <<>> for ValueError.  Python's int also accepts
\* a sign, surrounding blanks and single underscores between digits; no
\* name below has such a remainder.
PyInt(cs) ==
    IF cs # <<>> /\ \A i \in DOMAIN cs : cs[i] \in DigitChars
       THEN <<DecimalValue(cs)>>
       ELSE <<>>

\* str.startswith
StartsWith(name, prefix) ==
    Len(name) >= Len(prefix) /\ SubSeq(name, 1, Len(prefix)) = prefix

FailPrefix == <<"f", "a", "i", "l", "_">>

\* get_next_index: if name.startswith("fail_"): name = name[5:]
StripFail_Keeps(name) == name

StripFail(name) ==
    IF StartsWith(name, FailPrefix) THEN SubSeq(name, Len(FailPrefix) + 1, Len(name))
    ELSE name

\* get_next_index: prefix = f"{date.year}_{date.month}_{date.day}_{lang}_"
NamePrefix(date, lang) ==
    Str(date.year) \o <<"_">> \o Str(date.month) \o <<"_">> \o Str(date.day)
       \o <<"_">> \o lang \o <<"_">>

\* max(existing, default=0)
MaxOrZero(S) == IF S = {} THEN 0 ELSE CHOOSE x \in S : \A y \in S : y <= x

\* get_next_index(date, lang) over the stems of VIDEO_DIR.iterdir()
GetNextIndex(stems, date, lang) ==
    LET prefix == NamePrefix(date, lang)
        rest(f) == SubSeq(StripFail(f), Len(prefix) + 1, Len(StripFail(f)))
        existing == {PyInt(rest(f))[1] :
                        f \in {g \in stems : /\ StartsWith(StripFail(g), prefix)
                                             /\ PyInt(rest(g)) # <<>>}}
    IN  MaxOrZero(existing) + 1

\* generate_standard_name(lang, date)
GenerateStandardName(stems, lang, date) ==
    NamePrefix(date, lang) \o Str(GetNextIndex(stems, date, lang))

\* Languages detect_language can answer.
LangZh == <<"z", "h">>
LangEn == <<"e", "n">>
Langs == {LangZh, LangEn}

\* Dates the generator is called on.
Dates == {[year |-> 2026, month |-> 1, day |-> 1], [year |-> 2026, month |-> 1, day |-> 11]}

Jan1 == <<"2", "0", "2", "6", "_", "1", "_", "1", "_">>
Jan11 == <<"2", "0", "2", "6", "_", "1", "_", "1", "1", "_">>

\* Stems of files that may lie in the managed media directory beforehand:
\* results of earlier tasks, failed ones, other languages and dates, and
\* files that are no results at all.
StemCatalogue ==
    {Jan1 \o LangZh \o <<"_", "1">>,
     Jan1 \o LangZh \o <<"_", "2">>,
     FailPrefix \o Jan1 \o LangZh \o <<"_", "5">>,
     Jan1 \o LangZh \o <<"_", "1", "0">>,
     Jan1 \o LangEn \o <<"_", "3">>,
     FailPrefix \o Jan1 \o LangEn \o <<"_", "9">>,
     Jan11 \o LangZh \o <<"_", "7">>,
     Jan1 \o LangZh \o <<"_", "v", "2">>,
     <<"n", "o", "t", "e", "s">>}

\* Names generated in one run of NameSpec.
MaxNamed == 2

NmStart == [stems |-> {}, date |-> CHOOSE d \in Dates : d.day = 1, lang |-> LangZh,
            result |-> <<>>, named |-> 0]

NmInputs ==
    {[NmStart EXCEPT !.stems = S, !.date = d, !.lang = l] :
        S \in SUBSET StemCatalogue, d \in Dates, l \in Langs}

----------------------------------------------------------------------------
\* main.py, TaskQueue

\* queue.Queue.get of the worker loop: the index it takes (FIFO: the oldest).
QGetIndex_Lifo(q) == Len(q)
QGetIndex(q) == 1

QRemoveAt(q, i) == [j \in 1..(Len(q) - 1) |-> IF j < i THEN q[j] ELSE q[j + 1]]

\* The worker loop's `except Exception` / `finally`: where an error that
\* escapes process_video leaves the worker.
WorkerCatch_Dies == "dead"
WorkerCatch == "cooldown"

----------------------------------------------------------------------------
\* The state after construction, less the inputs of the percent formulas.
InitSys ==
    /\ files = {}
    /\ eventsLeft = MaxEvents
    /\ processedFile = {}
    /\ processedTorn = FALSE
    /\ inflight = {}
    /\ wpc = [p \in Paths |-> "none"]
    /\ wloaded = [p \in Paths |-> {}]
    /\ queue = <<>>
    /\ wk = "get"
    /\ cur = NoPath
    /\ kloaded = {}
    /\ stage = "idle"
    /\ error = FALSE
    /\ pm = NoTask
    /\ elapsed = 0
    /\ pqueue = <<>>
    /\ completed = 0
    /\ failed = 0
    /\ history = <<>>
    /\ nextTicket = 0
    /\ lastTicket = 0
    /\ starts = [p \in Paths |-> 0]
    /\ everMarked = {}
    /\ escaped = FALSE
    /\ dupSkipped = FALSE
    /\ lidRaised = FALSE
    /\ notified = FALSE
    /\ written = FALSE
    /\ sd = SdStart
    /\ sf = SfStart

Init == InitSys /\ pc = PcStart /\ nm = NmStart

----------------------------------------------------------------------------
\* watcher.py: the observer thread

\* A file appears (created or moved in) at a watched path and
\* VideoHandler._handle_file runs for it.
FsEvent(p) ==
    /\ eventsLeft > 0
    /\ eventsLeft' = eventsLeft - 1
    /\ files' = files \cup ({p} \cap Paths)
    /\ IF HandleFileIgnores(p) \/ IsProcessed(p)
          THEN UNCHANGED <<inflight, wpc, dupSkipped>>
          ELSE IF AlreadyInFlight(p)
                  THEN /\ dupSkipped' = TRUE
                       /\ UNCHANGED <<inflight, wpc>>
                  ELSE /\ inflight' = inflight \cup {p}
                       /\ wpc' = [wpc EXCEPT ![p] = "wait"]
                       /\ UNCHANGED dupSkipped
    /\ UNCHANGED <<wloaded, recVars, queue, workVars, progVars, pqueue, ticketVars, escaped>>
    /\ UNCHANGED <<pm, elapsed, lidRaised, notified, written, sd, pc, sf, nm>>

\* _wait_and_process: _wait_for_stable returns; False when the file is gone
\* or never settles within FILE_STABLE_MAX_WAIT.
WaitForStable(p) ==
    /\ wpc[p] = "wait"
    /\ \E stable \in (IF p \in files THEN {TRUE, FALSE} ELSE {FALSE}) :
          wpc' = [wpc EXCEPT ![p] = IF stable THEN "callback" ELSE "finally"]
    /\ UNCHANGED <<fsVars, eventsLeft, recVars, inflight, wloaded, queue, workVars,
                   progVars, pqueue, ticketVars, escaped>>
    /\ UNCHANGED <<pm, elapsed, dupSkipped, lidRaised, notified, written, sd, pc, sf, nm>>

\* on_new_video up to the prompt: stat (raises when the file is gone), then
\* the is_processed check.
OnNewVideoCheck(p) ==
    /\ wpc[p] = "callback"
    /\ wpc' = [wpc EXCEPT ![p] =
                 IF p \notin files \/ IsProcessed(p) THEN "finally" ELSE "prompt"]
    /\ UNCHANGED <<fsVars, eventsLeft, recVars, inflight, wloaded, queue, workVars,
                   progVars, pqueue, ticketVars, escaped>>
    /\ UNCHANGED <<pm, elapsed, dupSkipped, lidRaised, notified, written, sd, pc, sf, nm>>

\* What _run_osascript hands back to ask_confirm: the button pressed
\* ("transcribe" stands for the button 转录, "skip" for 跳过), or "" when the
\* dialog gave up after 60 s, osascript timed out or failed.
Answers == {"transcribe", "skip", ""}

\* ask_confirm: if result == "转录": return True, else False.
Confirmed_UnlessSkipped(result) == result # "skip"

Confirmed(result) == result = "transcribe"

\* ask_confirm returns with `result`.  True: add_task starts (stat, which
\* raises when the file is gone, then progress.add_to_queue).  False:
\* mark_processed starts.
AskConfirmAnswer(p, result) ==
    /\ wpc[p] = "prompt"
    /\ IF Confirmed(result)
          THEN IF p \in files
                  THEN /\ pqueue' = AddToQueue(pqueue, Name(p))
                       /\ wpc' = [wpc EXCEPT ![p] = "put"]
                  ELSE /\ wpc' = [wpc EXCEPT ![p] = "finally"]
                       /\ UNCHANGED pqueue
          ELSE /\ wpc' = [wpc EXCEPT ![p] = "reject_load"]
               /\ UNCHANGED pqueue
    /\ UNCHANGED <<fsVars, eventsLeft, recVars, inflight, wloaded, queue, workVars,
                   progVars, ticketVars, escaped>>
    /\ UNCHANGED <<pm, elapsed, dupSkipped, lidRaised, notified, written, sd, pc, sf, nm>>

AskConfirm(p) == \E result \in Answers : AskConfirmAnswer(p, result)

\* add_task: self.q.put(video_path)
QPut(p) ==
    /\ wpc[p] = "put"
    /\ nextTicket' = nextTicket + 1
    /\ queue' = Append(queue, [path |-> p, ticket |-> nextTicket + 1])
    /\ wpc' = [wpc EXCEPT ![p] = "finally"]
    /\ UNCHANGED <<fsVars, eventsLeft, recVars, inflight, wloaded, workVars,
                   progVars, pqueue, lastTicket, escaped>>
    /\ UNCHANGED <<pm, elapsed, dupSkipped, lidRaised, notified, written, sd, pc, sf, nm>>

\* mark_processed after a rejection: processed = load_processed()
RejectLoad(p) ==
    /\ wpc[p] = "reject_load"
    /\ wloaded' = [wloaded EXCEPT ![p] = LoadProcessed]
    /\ wpc' = [wpc EXCEPT ![p] = "reject_open"]
    /\ UNCHANGED <<fsVars, eventsLeft, recVars, inflight, queue, workVars,
                   progVars, pqueue, ticketVars, escaped>>
    /\ UNCHANGED <<pm, elapsed, dupSkipped, lidRaised, notified, written, sd, pc, sf, nm>>

\* save_processed: write_text opens processed.json (truncating it), or fails
\* with an OSError that ends the thread through the finally block.
RejectOpen(p) ==
    /\ wpc[p] = "reject_open"
    /\ \/ /\ processedTorn' = TRUE
          /\ processedFile' = {}
          /\ wpc' = [wpc EXCEPT ![p] = "reject_write"]
       \/ /\ wpc' = [wpc EXCEPT ![p] = "finally"]
          /\ UNCHANGED <<processedFile, processedTorn>>
    /\ UNCHANGED <<fsVars, eventsLeft, everMarked, inflight, wloaded, queue, workVars,
                   progVars, pqueue, ticketVars, escaped>>
    /\ UNCHANGED <<pm, elapsed, dupSkipped, lidRaised, notified, written, sd, pc, sf, nm>>

\* save_processed: the data is written and the file closed.
RejectWrite(p) ==
    /\ wpc[p] = "reject_write"
    /\ processedFile' = wloaded[p] \cup {p}
    /\ processedTorn' = FALSE
    /\ everMarked' = everMarked \cup {p}
    /\ wpc' = [wpc EXCEPT ![p] = "finally"]
    /\ UNCHANGED <<fsVars, eventsLeft, inflight, wloaded, queue, workVars,
                   progVars, pqueue, ticketVars, escaped>>
    /\ UNCHANGED <<pm, elapsed, dupSkipped, lidRaised, notified, written, sd, pc, sf, nm>>

\* _wait_and_process: finally: _currently_processing.discard(str(path))
WatcherFinally(p) ==
    /\ wpc[p] = "finally"
    /\ inflight' = inflight \ {StrPath(p)}
    /\ wpc' = [wpc EXCEPT ![p] = "none"]
    /\ wloaded' = [wloaded EXCEPT ![p] = {}]
    /\ UNCHANGED <<fsVars, eventsLeft, recVars, queue, workVars,
                   progVars, pqueue, ticketVars, escaped>>
    /\ UNCHANGED <<pm, elapsed, dupSkipped, lidRaised, notified, written, sd, pc, sf, nm>>

----------------------------------------------------------------------------
\* main.py: the worker thread

\* _worker: video_path = self.q.get()
WorkerGet ==
    /\ wk = "get"
    /\ queue # <<>>
    /\ LET i == QGetIndex(queue) IN
          /\ cur' = queue[i].path
          /\ lastTicket' = queue[i].ticket
          /\ queue' = QRemoveAt(queue, i)
    /\ wk' = "stat"
    /\ UNCHANGED <<fsVars, eventsLeft, recVars, watchVars, kloaded, progVars, pqueue,
                   nextTicket, escaped>>
    /\ UNCHANGED <<pm, elapsed, dupSkipped, lidRaised, notified, written, sd, pc, sf, nm>>

\* process_video: video_path.stat() raises when the file is gone; otherwise
\* progress.remove_from_queue(filename).
PvStat ==
    /\ wk = "stat"
    /\ IF cur \in files
          THEN /\ pqueue' = RemoveFromQueue(pqueue, Name(cur))
               /\ wk' = "check"
               /\ UNCHANGED escaped
          ELSE /\ wk' = WorkerCatch
               /\ escaped' = TRUE
               /\ UNCHANGED pqueue
    /\ UNCHANGED <<fsVars, eventsLeft, recVars, watchVars, queue, cur, kloaded, progVars,
                   ticketVars>>
    /\ UNCHANGED <<pm, elapsed, dupSkipped, lidRaised, notified, written, sd, pc, sf, nm>>

\* process_video: what the return at the re-check does to the
\* ProgressManager: nothing, no method is called.
ProgAbort_CountsFailure == ProgFinish(FALSE)

ProgAbort == UNCHANGED <<stage, error, pm, completed, failed, history, pqueue>>

\* process_video: if is_processed(str(video_path)): return
PvCheck ==
    /\ wk = "check"
    /\ IF IsProcessed(cur)
          THEN /\ ProgAbort
               /\ wk' = "cooldown"
          ELSE /\ UNCHANGED <<stage, error, pm, completed, failed, history, pqueue>>
               /\ wk' = "start"
    /\ UNCHANGED <<fsVars, eventsLeft, recVars, watchVars, queue, cur, kloaded, starts,
                   ticketVars, escaped>>
    /\ UNCHANGED <<elapsed, dupSkipped, lidRaised, notified, written, sd, pc, sf, nm>>

\* progress.start(filename, filesize_mb)
PvStart ==
    /\ wk = "start"
    /\ ProgStart(Name(cur), FilesizeMb(cur))
    /\ elapsed' = 0
    /\ starts' = [starts EXCEPT ![cur] = @ + 1]
    /\ wk' = "mark_load"
    /\ UNCHANGED <<fsVars, eventsLeft, recVars, watchVars, queue, cur, kloaded, ticketVars,
                   escaped, dupSkipped, lidRaised, notified, written, sd, pc, sf, nm>>

\* mark_processed: processed = load_processed()
PvMarkLoad ==
    /\ wk = "mark_load"
    /\ kloaded' = LoadProcessed
    /\ wk' = "mark_open"
    /\ UNCHANGED <<fsVars, eventsLeft, recVars, watchVars, queue, cur, progVars,
                   pqueue, ticketVars, escaped>>
    /\ UNCHANGED <<pm, elapsed, dupSkipped, lidRaised, notified, written, sd, pc, sf, nm>>

\* save_processed: write_text opens processed.json (truncating it), or fails
\* with an OSError, which leaves process_video before its try block.
PvMarkOpen ==
    /\ wk = "mark_open"
    /\ \/ /\ processedTorn' = TRUE
          /\ processedFile' = {}
          /\ wk' = "mark_write"
          /\ UNCHANGED escaped
       \/ /\ wk' = WorkerCatch
          /\ escaped' = TRUE
          /\ UNCHANGED <<processedFile, processedTorn>>
    /\ UNCHANGED <<fsVars, eventsLeft, everMarked, watchVars, queue, cur, kloaded,
                   progVars, pqueue, ticketVars>>
    /\ UNCHANGED <<pm, elapsed, dupSkipped, lidRaised, notified, written, sd, pc, sf, nm>>

\* save_processed: the data is written and the file closed.
PvMarkWrite ==
    /\ wk = "mark_write"
    /\ processedFile' = kloaded \cup {cur}
    /\ processedTorn' = FALSE
    /\ everMarked' = everMarked \cup {cur}
    /\ wk' = "upd_extract"
    /\ UNCHANGED <<fsVars, eventsLeft, watchVars, queue, cur, kloaded, progVars,
                   pqueue, ticketVars, escaped>>
    /\ UNCHANGED <<pm, elapsed, dupSkipped, lidRaised, notified, written, sd, pc, sf, nm>>

\* notify_start(filename, filesize_mb), then try: progress.update("extract", ...)
PvUpdExtract ==
    /\ wk = "upd_extract"
    /\ notified' = TRUE
    /\ ProgUpdate("extract", "filename", 0, 0)
    /\ wk' = "extract"
    /\ UNCHANGED <<elapsed, starts>>
    /\ UNCHANGED <<fsVars, eventsLeft, recVars, watchVars, queue, cur, kloaded, ticketVars,
                   escaped, dupSkipped, lidRaised, written, sd, pc, sf, nm>>

\* extract_audio returns, then progress.update("detect", ...); or ffmpeg
\* fails and the except block is entered.
PvExtract ==
    /\ wk = "extract"
    /\ \/ /\ \E duration \in Durations :
                ProgUpdate("detect", "duration", 0, duration)
          /\ wk' = "detect"
       \/ /\ wk' = "set_error"
          /\ UNCHANGED <<stage, error, pm, completed, failed, history, pqueue>>
    /\ UNCHANGED <<elapsed, starts>>
    /\ UNCHANGED <<fsVars, eventsLeft, recVars, watchVars, queue, cur, kloaded, ticketVars,
                   escaped, dupSkipped, lidRaised, notified, written, sd, pc, sf, nm>>

\* detect_language returns, then progress.update("transcribe", ...).  When
\* the clip extraction, the model load or model.generate raises inside
\* detect_language (`raised`), its `except Exception` logs the error and
\* returns "zh": the caller sees a normal return either way.
PvDetectReturns(raised) ==
    /\ wk = "detect"
    /\ lidRaised' = raised
    /\ ProgUpdate("transcribe", "language", 0, 0)
    /\ wk' = "transcribe"
    /\ UNCHANGED <<elapsed, starts>>
    /\ UNCHANGED <<fsVars, eventsLeft, recVars, watchVars, queue, cur, kloaded, ticketVars,
                   escaped, dupSkipped, notified, written, sd, pc, sf, nm>>

PvDetect == PvDetectReturns(FALSE)

\* _run_transcribe_with_progress: done_event.wait(timeout=2) times out while
\* the ASR call is still running, and the estimate is published.  The clock
\* only moves forward; `elapsed` is forgotten when the loop is left.
PvTranscribePoll ==
    /\ wk \in {"transcribe", "asr_hung"}
    /\ \E t \in ElapsedSamples :
          /\ t > elapsed
          /\ elapsed' = t
          /\ ProgUpdateTranscribe(ClampDisplay(DisplayPct(t, pm.duration)), "elapsed")
    /\ UNCHANGED <<wk, starts>>
    /\ UNCHANGED <<fsVars, eventsLeft, recVars, watchVars, queue, cur, kloaded, ticketVars,
                   escaped, dupSkipped, lidRaised, notified, written, sd, pc, sf, nm>>

\* _load_model / _run_transcribe_with_progress / _parse_funasr_result
\* return, then progress.update("save", ...); or one of them raises.
PvTranscribe ==
    /\ wk = "transcribe"
    /\ \/ /\ ProgUpdate("save", "saving", 0, 0)
          /\ wk' = "save"
       \/ /\ wk' = "set_error"
          /\ UNCHANGED <<stage, error, pm, completed, failed, history, pqueue>>
    /\ elapsed' = 0
    /\ UNCHANGED starts
    /\ UNCHANGED <<fsVars, eventsLeft, recVars, watchVars, queue, cur, kloaded, ticketVars,
                   escaped, dupSkipped, lidRaised, notified, written, sd, pc, sf, nm>>

\* generate_standard_name, save_transcript_md and move_video(success=True)
\* succeed, then progress.finish(success=True, ...); or the name or the
\* transcript cannot be written and the except block is entered.
PvSave ==
    /\ wk = "save"
    /\ \/ /\ files' = files \ {cur}
          /\ written' = TRUE
          /\ ProgFinish(TRUE)
          /\ wk' = "done_sleep"
       \/ /\ wk' = "set_error"
          /\ UNCHANGED <<files, written, stage, error, pm, completed, failed, history,
                         pqueue>>
    /\ UNCHANGED <<elapsed, starts>>
    /\ UNCHANGED <<eventsLeft, recVars, watchVars, queue, cur, kloaded, ticketVars,
                   escaped, dupSkipped, lidRaised, notified, sd, pc, sf, nm>>

\* except Exception: progress.set_error(error_msg)
PvSetError ==
    /\ wk = "set_error"
    /\ ProgSetError
    /\ wk' = "finish_failed"
    /\ UNCHANGED <<elapsed, starts>>
    /\ UNCHANGED <<fsVars, eventsLeft, recVars, watchVars, queue, cur, kloaded, ticketVars,
                   escaped, dupSkipped, lidRaised, notified, written, sd, pc, sf, nm>>

\* progress.finish(success=False)
PvFinishFailed ==
    /\ wk = "finish_failed"
    /\ ProgFinish(FALSE)
    /\ wk' = "fail_move"
    /\ UNCHANGED <<elapsed, starts>>
    /\ UNCHANGED <<fsVars, eventsLeft, recVars, watchVars, queue, cur, kloaded, ticketVars,
                   escaped, dupSkipped, lidRaised, notified, written, sd, pc, sf, nm>>

\* move_video(success=False) inside its own try: the file is moved under a
\* fail_ name, or the move raises and the error is only logged.
PvFailMove ==
    /\ wk = "fail_move"
    /\ \/ files' = files \ {cur}
       \/ UNCHANGED files
    /\ wk' = "failed_sleep"
    /\ UNCHANGED <<eventsLeft, recVars, watchVars, queue, cur, kloaded,
                   progVars, pqueue, ticketVars, escaped>>
    /\ UNCHANGED <<pm, elapsed, dupSkipped, lidRaised, notified, written, sd, pc, sf, nm>>

\* time.sleep(5); progress.reset_to_idle()  (both branches)
PvResetToIdle ==
    /\ wk \in {"done_sleep", "failed_sleep"}
    /\ ProgResetToIdle
    /\ elapsed' = 0
    /\ lidRaised' = FALSE
    /\ wk' = "cooldown"
    /\ UNCHANGED starts
    /\ UNCHANGED <<fsVars, eventsLeft, recVars, watchVars, queue, cur, kloaded, ticketVars,
                   escaped, dupSkipped, notified, written, sd, pc, sf, nm>>

\* _worker: finally: task_done(); time.sleep(1)
WorkerCooldown ==
    /\ wk = "cooldown"
    /\ wk' = "get"
    /\ cur' = NoPath
    /\ kloaded' = {}
    /\ notified' = FALSE
    /\ written' = FALSE
    /\ UNCHANGED <<fsVars, eventsLeft, recVars, watchVars, queue, progVars, pqueue,
                   ticketVars, escaped>>
    /\ UNCHANGED <<pm, elapsed, dupSkipped, lidRaised, sd, pc, sf, nm>>

----------------------------------------------------------------------------
ObserverStep == \E p \in EventPaths : FsEvent(p)

WatcherStep(p) ==
    \/ WaitForStable(p)
    \/ OnNewVideoCheck(p)
    \/ AskConfirm(p)
    \/ QPut(p)
    \/ RejectLoad(p)
    \/ RejectOpen(p)
    \/ RejectWrite(p)
    \/ WatcherFinally(p)

WorkerStep ==
    \/ WorkerGet
    \/ PvStat
    \/ PvCheck
    \/ PvStart
    \/ PvMarkLoad
    \/ PvMarkOpen
    \/ PvMarkWrite
    \/ PvUpdExtract
    \/ PvExtract
    \/ PvDetect
    \/ PvTranscribePoll
    \/ PvTranscribe
    \/ PvSave
    \/ PvSetError
    \/ PvFinishFailed
    \/ PvFailMove
    \/ PvResetToIdle
    \/ WorkerCooldown

Next == ObserverStep \/ (\E p \in Paths : WatcherStep(p)) \/ WorkerStep

Spec == Init /\ [][Next]_vars

\* The worker is a running thread: each of its steps ends (a sleep, a call
\* that returns or raises), so a step that stays possible is taken.
FairSpec == Spec /\ WF_vars(WorkerStep)

\* Each watcher task is a running thread as well: _wait_for_stable returns
\* within FILE_STABLE_MAX_WAIT, the prompt within the osascript timeout, and
\* the remaining steps are plain calls.
WatchFairSpec == Spec /\ \A p \in Paths : WF_vars(WatcherStep(p))

----------------------------------------------------------------------------
\* Collaborators that never return

\* detect_language: model.generate (transcriber.py) is called without a
\* timeout; when it never returns, process_video stays inside the call.
PvDetectHangs ==
    /\ wk = "detect"
    /\ wk' = "detect_hung"
    /\ UNCHANGED <<fsVars, eventsLeft, recVars, watchVars, queue, cur, kloaded, progVars,
                   pqueue, ticketVars, escaped>>
    /\ UNCHANGED <<pm, elapsed, dupSkipped, lidRaised, notified, written, sd, pc, sf, nm>>

\* _run_transcribe_with_progress: asr_model.generate never returns, so
\* done_event is never set and the wait loop (PvTranscribePoll) never ends.
PvAsrHangs ==
    /\ wk = "transcribe"
    /\ wk' = "asr_hung"
    /\ UNCHANGED <<fsVars, eventsLeft, recVars, watchVars, queue, cur, kloaded, progVars,
                   pqueue, ticketVars, escaped>>
    /\ UNCHANGED <<pm, elapsed, dupSkipped, lidRaised, notified, written, sd, pc, sf, nm>>

HangNext == Next \/ PvDetectHangs \/ PvAsrHangs

\* detect_language catches an exception of the language identification and
\* answers "zh".
PvDetectCaught == PvDetectReturns(TRUE)

LidNext == Next \/ PvDetectCaught

\* The program with a language identification that can throw.
LidSpec == Init /\ [][LidNext]_vars

\* save_transcript_md has written the transcript into TXT_DIR, then
\* move_video(success=True) raises (shutil.move fails: the source is gone or
\* the media directory is not writable) and the except block is entered.
\* Nothing in the except block touches the transcript.
PvSaveMoveRaises ==
    /\ wk = "save"
    /\ written' = TRUE
    /\ wk' = "set_error"
    /\ UNCHANGED <<fsVars, eventsLeft, recVars, watchVars, queue, cur, kloaded, progVars,
                   pqueue, ticketVars, escaped>>
    /\ UNCHANGED <<pm, elapsed, dupSkipped, lidRaised, notified, sd, pc, sf, nm>>

MoveFailNext == Next \/ PvSaveMoveRaises

\* The program with a source-file move that can fail after the transcript
\* was saved.
MoveFailSpec == Init /\ [][MoveFailNext]_vars

\* The worker thread runs whenever it can (as in FairSpec); extract_audio is
\* bounded by subprocess.run(timeout=600), whose expiry is the failing
\* branch of PvExtract.
HangSpec == Init /\ [][HangNext]_vars /\ WF_vars(WorkerStep)

----------------------------------------------------------------------------
\* watcher.py: one call of _wait_for_stable, poll by poll

\* One iteration of the loop: exists(), stat(), the comparison, and either a
\* return or prev_size = curr_size; time.sleep(interval); waited += interval.
StablePoll ==
    /\ sd.result = "running"
    /\ LoopContinues(sd.waited)
    /\ \E o \in Observations :
          LET seen == [sd EXCEPT !.polls = @ + 1, !.before = sd.obs, !.obs = o] IN
          sd' = IF o.kind # "size"
                   THEN [seen EXCEPT !.result = "false"]
                   ELSE IF StableReading(o.size, sd.prev)
                           THEN [seen EXCEPT !.result = "true"]
                           ELSE [seen EXCEPT !.prev = o.size,
                                             !.waited = @ + FILE_STABLE_CHECK_INTERVAL]
    /\ UNCHANGED <<sysVars, pc, sf, nm>>

\* The loop condition fails: return False.
StableTimeout ==
    /\ sd.result = "running"
    /\ ~LoopContinues(sd.waited)
    /\ sd' = [sd EXCEPT !.result = "false"]
    /\ UNCHANGED <<sysVars, pc, sf, nm>>

StableNext == StablePoll \/ StableTimeout

StableSpec == Init /\ [][StableNext]_vars

----------------------------------------------------------------------------
\* The percent formulas on their own

\* _compute_progress for the drawn stage and sub-percent.
PctCompute ==
    /\ ~pc.computed
    /\ pc' = [pc EXCEPT !.percent = ComputeProgress(pc.stage, pc.sub),
                        !.computed = TRUE]
    /\ UNCHANGED <<sysVars, sd, sf, nm>>

\* The estimate of _run_transcribe_with_progress for the drawn elapsed time
\* and media duration.
PctEstimate ==
    /\ ~pc.estimated
    /\ pc' = [pc EXCEPT !.display = ClampDisplay(DisplayPct(pc.elapsed, pc.duration)),
                        !.estimated = TRUE]
    /\ UNCHANGED <<sysVars, sd, sf, nm>>

PctNext == PctCompute \/ PctEstimate

\* The inputs are drawn before the formulas are evaluated.
PctInit == InitSys /\ pc \in PcInputs /\ nm = NmStart

PctSpec == PctInit /\ [][PctNext]_vars

----------------------------------------------------------------------------
\* progress.py: the ProgressManager driven through task after task

\* Tasks finished in one run of ProgSpec.
MaxFinished == 6

ProgTaskStart ==
    /\ Len(history) < MaxFinished
    /\ stage = "idle"
    /\ ProgStart("a.mp4", FilesizeMb("/Desktop/a.mp4"))
    /\ UNCHANGED <<nonProgVars, sd, pc, sf, nm>>

ProgTaskError ==
    /\ stage = "waiting"
    /\ ~error
    /\ ProgSetError
    /\ UNCHANGED <<nonProgVars, sd, pc, sf, nm>>

ProgTaskFinish ==
    /\ stage = "waiting"
    /\ ProgFinish(~error)
    /\ UNCHANGED <<nonProgVars, sd, pc, sf, nm>>

ProgTaskReset ==
    /\ stage \in {"done", "failed"}
    /\ ProgResetToIdle
    /\ UNCHANGED <<nonProgVars, sd, pc, sf, nm>>

ProgNext == ProgTaskStart \/ ProgTaskError \/ ProgTaskFinish \/ ProgTaskReset

ProgSpec == Init /\ [][ProgNext]_vars

----------------------------------------------------------------------------
\* file_manager.py: names generated for a directory, a date and a language

\* process_video: standard_name = generate_standard_name(lang)
NameGenerate ==
    /\ nm.result = <<>>
    /\ nm.named < MaxNamed
    /\ nm' = [nm EXCEPT !.result = <<GenerateStandardName(nm.stems, nm.lang, nm.date)>>,
                        !.named = @ + 1]
    /\ UNCHANGED <<sysVars, sd, pc, sf>>

\* move_video(src, standard_name, success): the source file arrives in the
\* directory under the name, with the fail_ prefix when the task failed.
NameMove ==
    /\ nm.result # <<>>
    /\ \E success \in BOOLEAN :
          nm' = [nm EXCEPT !.stems = @ \cup {IF success THEN nm.result[1]
                                                ELSE FailPrefix \o nm.result[1]},
                           !.result = <<>>]
    /\ UNCHANGED <<sysVars, sd, pc, sf>>

NameNext == NameGenerate \/ NameMove

NameInit == InitSys /\ pc = PcStart /\ nm \in NmInputs

NameSpec == NameInit /\ [][NameNext]_vars

----------------------------------------------------------------------------
\* progress.py and dashboard_server.py: status.json with two calling threads
\* and the status endpoint.  A ProgressManager method changes the fields and
\* calls _write_status, which builds the document from the fields
\* (json.dumps) and hands it to Path.write_text; write_text opens the file
\* for writing, which empties it, then writes the text and closes.  No lock
\* is taken anywhere, so the steps of two calls interleave freely.

\* Tasks the worker runs, and queue entries shown, in one run of StatusSpec.
MaxStatusTasks == 2

MaxShown == 2

\* add_to_queue / remove_from_queue as methods of the ProgressManager.
ProgAddToQueue(name) ==
    /\ pqueue' = AddToQueue(pqueue, name)
    /\ UNCHANGED <<stage, error, pm, completed, failed, history>>

ProgRemoveFromQueue(name) ==
    /\ pqueue' = RemoveFromQueue(pqueue, name)
    /\ UNCHANGED <<stage, error, pm, completed, failed, history>>

\* _write_status up to the call of write_text, as the last part of a method
\* called on thread t: the document is built from the fields just set.
StSerialize(t) ==
    /\ sf.pend[t] = <<>>
    /\ sf' = [sf EXCEPT !.pend[t] = <<Status'>>]

\* The worker calls the next ProgressManager method of process_video.
StWorkerCall ==
    /\ \/ /\ stage = "idle"
          /\ pqueue # <<>>
          /\ ProgRemoveFromQueue(Head(pqueue))
       \/ /\ stage = "idle"
          /\ Len(history) < MaxStatusTasks
          /\ ProgStart("a.mp4", FilesizeMb("/Desktop/a.mp4"))
       \/ /\ stage = "waiting"
          /\ ProgFinish(TRUE)
       \/ /\ stage = "done"
          /\ ProgResetToIdle
    /\ StSerialize("worker")
    /\ UNCHANGED <<nonProgVars, sd, pc, nm>>

\* A watcher task calls add_to_queue from add_task.
StWatcherCall ==
    /\ Len(pqueue) < MaxShown
    /\ \E p \in Paths : ProgAddToQueue(Name(p))
    /\ StSerialize("watcher")
    /\ UNCHANGED <<nonProgVars, sd, pc, nm>>

\* write_text on thread t opens status.json with mode "w": the file is
\* truncated to zero bytes.
StOpen(t) ==
    /\ sf.pend[t] # <<>>
    /\ t \notin sf.opened
    /\ sf' = [sf EXCEPT !.file = <<>>, !.opened = @ \cup {t}]
    /\ UNCHANGED sysVars
    /\ UNCHANGED <<sd, pc, nm>>

\* write_text on thread t writes its document and closes the file.  (When
\* another thread wrote in between, the longer of the two texts would leave
\* its tail behind; the file is taken to hold this thread's text.)
StWrite(t) ==
    /\ t \in sf.opened
    /\ sf' = [sf EXCEPT !.file = sf.pend[t], !.pend[t] = <<>>, !.opened = @ \ {t}]
    /\ UNCHANGED sysVars
    /\ UNCHANGED <<sd, pc, nm>>

\* DashboardHandler.do_GET for /api/status: the file exists, and its bytes
\* are sent as they are.
StRead ==
    /\ sf' = [sf EXCEPT !.read = sf.file]
    /\ UNCHANGED sysVars
    /\ UNCHANGED <<sd, pc, nm>>

StatusNext ==
    \/ StWorkerCall
    \/ StWatcherCall
    \/ (\E t \in Writers : StOpen(t))
    \/ (\E t \in Writers : StWrite(t))
    \/ StRead

StatusSpec == Init /\ [][StatusNext]_vars

----------------------------------------------------------------------------
\* Claims

\* C1: WorkQueue is strict FIFO.  Tickets number the q.put calls in the order
\* they complete; the tasks still pending are exactly those put after the
\* task dequeued last, oldest first, so the worker takes tasks in put order.
C1_Fifo ==
    /\ Len(queue) = nextTicket - lastTicket
    /\ \A i \in 1..Len(queue) : queue[i].ticket = lastTicket + i

\* A was put before B, and the worker has just taken A while B is pending.
C1_Witness ==
    /\ wk = "stat"
    /\ lastTicket = 1
    /\ queue # <<>>
    /\ queue[1].ticket = 2
    /\ queue[1].path # cur

\* C2: one consumer, one task at a time: a task is dequeued only after the
\* previous task's processing, including its return to idle, has ended.
C2_DequeueOnlyWhenIdle == wk = "stat" => stage = "idle"

\* C3: a failing task never stops the consumer: once process_video has raised
\* into the worker loop, every task that is pending is still dequeued.
C3_ConsumerSurvives == [](escaped /\ queue # <<>> => <>(wk = "stat"))

\* A task is in the pipeline after an earlier process_video call raised.
C3_Witness == escaped /\ stage = "extract"

\* C4: once a path is in ProcessedRecord, a later event for it starts no
\* stability wait (and so no prompt and no queue entry).
C4_NoWaitForProcessed ==
    [][\A p \in Paths :
          p \in everMarked => ~(wpc[p] = "none" /\ wpc'[p] = "wait")]_vars

\* C5: when a confirmation prompt is answered and the path handed to
\* add_task, the path is not in ProcessedRecord.
C5_NeverEnqueueProcessed ==
    [][\A p \in Paths :
          (wpc[p] = "prompt" /\ wpc'[p] = "put") => p \notin processedFile]_vars

\* Some mark_processed call is inside save_processed.
MarkWriting ==
    \/ wk \in {"mark_open", "mark_write"}
    \/ \E p \in Paths : wpc[p] \in {"reject_open", "reject_write"}

\* C6: ProcessedRecord is append-only: when no mark_processed call is writing,
\* every path ever marked is in processed.json.
C6_NoLostUpdate == ~MarkWriting => everMarked \subseteq processedFile

\* History entries recorded for a filename.
HistoryCount(name) == Cardinality({i \in 1..Len(history) : history[i].file = name})

\* C7: a path is run through the pipeline at most once: at most one start
\* (transition to waiting) and one history entry per path.
C7_AtMostOnce ==
    \A p \in Paths : starts[p] <= 1 /\ HistoryCount(Name(p)) <= 1

\* C8: membership is recorded before any work: while the stage is extract,
\* detect, transcribe, save, done or failed, the active task's path is in
\* processed.json (read when no writer has it open).
C8_MarkedBeforeWork ==
    (stage \in {"extract", "detect", "transcribe", "save", "done", "failed"}
        /\ ~processedTorn) => cur \in processedFile

\* The transition relation the stage may follow.
AllowedTransitions ==
    {<<"idle", "waiting">>, <<"waiting", "extract">>, <<"extract", "detect">>,
     <<"detect", "transcribe">>, <<"transcribe", "save">>, <<"save", "done">>,
     <<"done", "idle">>, <<"failed", "idle">>}
    \cup {<<s, "failed">> : s \in {"waiting", "extract", "detect", "transcribe", "save"}}

\* C9: the stage changes only along the allowed transitions, and a task
\* starts (-> waiting) only from idle.
C9_StageTransitions ==
    [][/\ stage' # stage => <<stage, stage'>> \in AllowedTransitions
       /\ starts' # starts => stage = "idle"]_vars

\* C10: the stage is never left in a non-idle stage after the worker has
\* finished with the task.
C10_IdleAfterTask == wk \in {"cooldown", "get"} => stage = "idle"

\* C11: a collaborator call that never returns still surfaces as a failure:
\* once language detection or the ASR call hangs, the task reaches failed.
C11_HungCallSurfaces ==
    [](wk \in {"detect_hung", "asr_hung"} => <>(stage = "failed"))

\* C12: within a task the percent of successive snapshots never decreases
\* (every step that does not return to idle keeps or raises it), and it is
\* 100 whenever the stage is done or failed.
C12_PercentMonotone ==
    [][/\ stage' # "idle" => Status'.progress >= Status.progress
       /\ stage' \in {"done", "failed"} => Status'.progress = 100]_vars

\* A task failed after the estimate had reached its cap of 95.
C12_Witness == stage = "failed" /\ error /\ pm.tpct = 95

\* The base percent of each stage as the specification lists it.
C13_Base(st) ==
    CASE st = "idle" -> 0
      [] st = "waiting" -> 5
      [] st = "extract" -> 15
      [] st = "detect" -> 25
      [] st = "save" -> 90
      [] st \in {"done", "failed"} -> 100

\* C13: the percent is the stage's base, and min(40 + floor(s * 0.5), 90) in
\* transcribe; it lies in 0..100; the estimator's sub-percent lies in 1..95,
\* which keeps the percent below 90 while the ASR call runs.
C13_PercentFormula ==
    /\ pc.computed =>
          /\ pc.percent = IF pc.stage = "transcribe"
                             THEN Min(40 + pc.sub \div 2, 90)
                             ELSE C13_Base(pc.stage)
          /\ pc.percent \in 0..100
    /\ pc.estimated =>
          /\ pc.display \in 1..95
          /\ ComputeProgress("transcribe", pc.display) < 90

\* s = 60 in transcribe gives 70, and an estimate below 1 was raised to 1.
C13_Witness ==
    /\ pc.computed /\ pc.stage = "transcribe" /\ pc.sub = 60 /\ pc.percent = 70
    /\ pc.estimated /\ pc.duration = 3600 /\ pc.elapsed = 2 /\ pc.display = 1

\* History entries with a given result.
ResultCount(r) == Cardinality({i \in 1..Len(history) : history[i].result = r})

\* C14: when the worker is done with its tasks, every task that was started
\* has left exactly one history entry and raised exactly one counter by one.
C14_ExactAccounting ==
    wk = "get" =>
        /\ Len(history) = starts["/Desktop/a.mp4"] + starts["/Desktop/b.mp4"]
        /\ completed = ResultCount("ok")
        /\ failed = ResultCount("fail")

\* C15: the history of a snapshot has at most 5 entries, which are the most
\* recent min(n, 5) of the n outcomes, in completion order.
C15_LastFive ==
    LET shown == Status.history
        n == Len(history)
    IN  /\ Len(shown) = Min(n, 5)
        /\ \A i \in 1..Len(shown) : shown[i] = history[n - Len(shown) + i]

\* Six tasks have finished, the oldest with a result the second did not have.
C15_Witness ==
    /\ Len(history) = 6
    /\ history[1].result = "fail"
    /\ history[2].result = "ok"

\* C16: reset_to_idle sets the stage to idle, zeroes every per-task field and
\* leaves the counters, the history and the queue view as they were.
C16_ResetFrame ==
    [][(wk \in {"done_sleep", "failed_sleep"} /\ wk' = "cooldown") =>
          /\ stage' = "idle"
          /\ pm'.filename = "" /\ pm'.filesize = 0 /\ pm'.duration = 0
          /\ pm'.detail = "" /\ pm'.tpct = 0 /\ ~pm'.started
          /\ ~error'
          /\ UNCHANGED <<completed, failed, history, pqueue>>]_vars

\* A failed task has been reset while another task is in the queue view.
C16_Witness ==
    /\ wk = "cooldown" /\ stage = "idle"
    /\ failed = 1 /\ history # <<>> /\ pqueue # <<>>

\* C17: the detector has answered true exactly when the latest poll read a
\* size greater than 0 that equals the size read by the poll before it.
C17_StableExactly ==
    sd.result = "true" <=>
        /\ sd.polls >= 2
        /\ sd.obs.kind = "size" /\ sd.obs.size > 0
        /\ sd.before = sd.obs

\* True at the third poll: the first two sizes differed.
C17_Witness == sd.result = "true" /\ sd.polls = 3

\* ceil(maxWaitSec / checkIntervalSec)
MaxPolls ==
    (FILE_STABLE_MAX_WAIT + FILE_STABLE_CHECK_INTERVAL - 1) \div FILE_STABLE_CHECK_INTERVAL

\* C18: the detector terminates: a poll that finds the path missing or
\* cannot stat it answers false, there are at most ceil(maxWait / interval)
\* polls, the time slept stays within maxWait + interval, and a running
\* detector always has a next step.
C18_Terminates ==
    /\ sd.obs.kind \in {"gone", "staterr"} => sd.result = "false"
    /\ sd.polls <= MaxPolls
    /\ sd.waited <= FILE_STABLE_MAX_WAIT + FILE_STABLE_CHECK_INTERVAL
    /\ sd.result = "running" => ENABLED StableNext

\* False after the last allowed poll, the file having existed throughout.
C18_Witness == sd.result = "false" /\ sd.polls = MaxPolls /\ sd.obs.kind = "size"

\* The paths the specification says are ignored.
C19_Ignorable(p) ==
    \/ Suffix(p) \notin MEDIA_EXTENSIONS
    \/ Name(p) \in {".a.mp4", "~a.mp4"}
    \/ p = "/AutoTranscribe/video/a.mp4"

\* C19: an event for a non-media, hidden/temporary or managed path changes
\* nothing but the count of events delivered.
C19_IgnoredNoEffect ==
    [][\A p \in EventPaths :
          (C19_Ignorable(p) /\ FsEvent(p)) =>
              UNCHANGED <<files, processedFile, processedTorn, inflight, wpc, wloaded,
                          queue, wk, cur, kloaded, stage, error, pm, pqueue,
                          completed, failed, history>>]_vars

\* Every event of the run has been delivered and none was for a media file.
C19_Witness == eventsLeft = 0 /\ files = {} /\ history = <<>> /\ inflight = {}

\* C20: an event for a path that is in flight starts nothing and changes
\* nothing, and a watcher thread exists only for a path in the in-flight set
\* (so a second thread for a path cannot be started while one exists).
C20_InFlightDedup ==
    [][/\ \A p \in Paths :
             (p \in inflight /\ FsEvent(p)) =>
                 UNCHANGED <<processedFile, processedTorn, inflight, wpc, wloaded,
                             queue, wk, cur, kloaded, stage, error, pm, pqueue,
                             completed, failed, history>>
       /\ \A p \in Paths : wpc'[p] # "none" => p \in inflight']_vars

\* An event was dropped for a path whose prompt is showing.
C20_Witness == dupSkipped /\ \E p \in Paths : wpc[p] = "prompt"

----------------------------------------------------------------------------
\* Entries of WorkQueue for path p.
QueuedCount(p) == Cardinality({i \in DOMAIN queue : queue[i].path = p})

\* A step of the watcher task for p (or the event that starts it).
WatcherTaskStep(p) == wpc'[p] # wpc[p]

\* mark_processed is running in the watcher task for p.
Rejecting(p) == wpc[p] \in {"reject_load", "reject_open", "reject_write"}

\* What C21 says outside the two outcomes below: the prompt is shown only
\* after a successful stability wait; a task for p creates a queue entry
\* only by its single q.put and touches processed.json only while
\* rejecting; "skip", a timeout and no response all reject; a task that is
\* rejecting or whose wait failed enqueues nothing.
C21_Routing(p) ==
    /\ (wpc'[p] = "prompt" /\ wpc[p] # "prompt") => wpc[p] = "callback"
    /\ WatcherTaskStep(p) =>
          /\ QueuedCount(p)' = QueuedCount(p) + (IF wpc[p] = "put" THEN 1 ELSE 0)
          /\ wpc[p] = "put" => wpc'[p] = "finally"
          /\ ~Rejecting(p) => UNCHANGED <<processedFile, processedTorn>>
          /\ wpc[p] # "prompt" => UNCHANGED pqueue
    /\ \A result \in {"skip", ""} :
          AskConfirmAnswer(p, result) => wpc'[p] = "reject_load" /\ UNCHANGED pqueue
    /\ (Rejecting(p) /\ WatcherTaskStep(p)) => wpc'[p] \notin {"put", "prompt"}
    /\ (wpc[p] = "wait" /\ wpc'[p] = "finally") =>
          UNCHANGED <<queue, pqueue, processedFile, processedTorn>>

----------------------------------------------------------------------------
\* The threads that have loaded processed.json inside mark_processed and
\* have not finished saving it (file_manager.py has no lock).
RecordWriters ==
    {p \in Paths : wpc[p] \in {"reject_open", "reject_write"}}
       \cup (IF wk \in {"mark_open", "mark_write"} THEN {"worker"} ELSE {})

\* C22: the ProcessedRecord store is single-writer-at-a-time: never are two
\* threads (watcher tasks, the worker) at once inside the load-add-save of
\* processed.json.
C22_SingleWriter == Cardinality(RecordWriters) <= 1

----------------------------------------------------------------------------
\* No ProgressManager method is between its first assignment and the end of
\* its write_text.
NoMutatorRunning == \A t \in Writers : sf.pend[t] = <<>>

\* C23: whenever no mutating method is executing (and writes do not fail),
\* status.json holds the serialisation of the current in-memory state: stage,
\* derived percent, stats, queue and last-5 history.
C23_FileMatchesMemory == NoMutatorRunning => sf.file = <<Status>>

\* C24: every read through the status endpoint returns a complete document,
\* the one some completed write produced, never an empty or partly written
\* one, even when the read overlaps a write.  (In StatusSpec the file holds
\* either a completed write's document or nothing.)
C24_ReadsComplete == sf.read # <<>>

----------------------------------------------------------------------------
\* C25: a task during which the language-identification call (or the ASR
\* call) threw never reaches save or done; it ends in stage failed.  For the
\* language identification: once the call has thrown, the task is in
\* neither stage.
C25_LidFailureFails == lidRaised => stage \notin {"save", "done"}

----------------------------------------------------------------------------
\* The indices of the files in the directory whose stem, with or without a
\* leading fail_, is the date-and-language prefix followed by a number.
C26_Indices ==
    {k \in 1..(Cardinality(nm.stems) + 20) :
        \E f \in nm.stems :
           \/ f = NamePrefix(nm.date, nm.lang) \o Str(k)
           \/ f = FailPrefix \o NamePrefix(nm.date, nm.lang) \o Str(k)}

----------------------------------------------------------------------------
\* C27: when the worker's re-check finds the dequeued path already in
\* processed.json, the task is dropped silently: from its dequeue to the
\* return, the worker's steps leave stage, percent, the per-task fields, the
\* counters, the history, processed.json and the files as they were, and no
\* notification has been sent when it returns.
C27_SilentAbort ==
    [][/\ (wk \in {"get", "stat", "check"} /\ wk' # wk /\ wk' # "start") =>
             /\ UNCHANGED <<stage, error, pm, completed, failed, history>>
             /\ Status'.progress = Status.progress
             /\ UNCHANGED <<processedFile, processedTorn, everMarked, files>>
       /\ (wk = "check" /\ wk' = "cooldown") => ~notified /\ ~notified']_vars

\* The worker has just dropped a task at the re-check: its path had been
\* queued twice, the first run finished, and nothing was started for the
\* second.
C27_Witness ==
    /\ wk = "cooldown"
    /\ cur \in processedFile
    /\ ~escaped
    /\ ~notified
    /\ stage = "idle"
    /\ Len(history) = 1
    /\ starts[cur] = 1
    /\ cur \in files

----------------------------------------------------------------------------
\* Entries of the queue view for filename `name`.
ShownCount(name) == Cardinality({i \in DOMAIN pqueue : pqueue[i] = name})

\* Tasks with filename `name` that are waiting: put into WorkQueue, or shown
\* by add_to_queue and about to be put.
WaitingCount(name) ==
    Cardinality({i \in DOMAIN queue : Name(queue[i].path) = name})
       + Cardinality({p \in Paths : wpc[p] = "put" /\ Name(p) = name})

\* C28: once the worker has finished with a dequeued task (also one whose
\* file has vanished since it was queued, or whose processing raised), the
\* queue view holds no entry for that task: every entry with its filename
\* belongs to a task that is still waiting.
C28_NoEntryLeft ==
    wk = "cooldown" => ShownCount(Name(cur)) <= WaitingCount(Name(cur))

----------------------------------------------------------------------------
\* No add_task is between its add_to_queue and its q.put, and the worker is
\* not between its q.get and its remove_from_queue.
NoEnqueueOrDequeueMidStep ==
    /\ \A p \in Paths : wpc[p] # "put"
    /\ wk # "stat"

\* C29: whenever no enqueue or dequeue is mid-step, the queue view holds
\* exactly one entry per task pending in WorkQueue, in the order in which
\* the tasks will be dequeued.
C29_ViewMirrorsQueue ==
    NoEnqueueOrDequeueMidStep =>
       pqueue = [i \in DOMAIN queue |-> Name(queue[i].path)]

----------------------------------------------------------------------------
\* C30: under fair scheduling and collaborators that return, every task put
\* into WorkQueue is dequeued and then either reaches a terminal stage (done
\* or failed) or is dropped by the re-check against processed.json: the
\* worker leaves a task only from the re-check or after the stage was done
\* or failed.
C30_TerminalOrAborted ==
    [][(wk' = "cooldown" /\ wk # "cooldown") =>
          \/ wk = "check"
          \/ wk \in {"done_sleep", "failed_sleep"} /\ stage \in {"done", "failed"}]_vars

----------------------------------------------------------------------------
\* C31: every path added to the in-flight set is eventually removed from it,
\* whatever the outcome of its task; the in-flight set holds exactly the
\* paths whose watcher task is running (so it is empty when none is); and
\* an event for an unprocessed path with no task running starts a task
\* again.
C31_InFlightReleased ==
    /\ \A p \in Paths : [](p \in inflight => <>(p \notin inflight))
    /\ [](inflight = {p \in Paths : wpc[p] # "none"})
    /\ [][\A p \in Paths :
            (FsEvent(p) /\ wpc[p] = "none" /\ ~IsProcessed(p)) =>
                (wpc'[p] = "wait" /\ p \in inflight')]_vars

\* A path whose earlier task ended with an accept (its task is queued) is in
\* flight again after a later event.
C31_Witness ==
    \E p \in Paths : QueuedCount(p) = 1 /\ wpc[p] = "wait" /\ p \in inflight

----------------------------------------------------------------------------
\* C32: in every serialised snapshot the error field is set only if the
\* stage is failed; it is empty in idle and in every stage of a task that
\* has not failed.  (Every ProgressManager method ends with _write_status,
\* so Status after each step is a snapshot that was written.)
C32_ErrorOnlyWhenFailed == Status.error => Status.state = "failed"

----------------------------------------------------------------------------
\* C33: a transcript exists only for completed tasks: whenever a task is in
\* stage failed, no transcript written for it remains in the transcripts
\* directory, also when the source-file move failed after the transcript
\* was written.
C33_NoTranscriptWhenFailed == stage = "failed" => ~written

====
